---- MODULE Spec2Model ----
(***************************************************************************)
(* Logo Composer of the brand-identity editor (ProjectEditor), and the     *)
(* three provider requests of the application: icon generation             *)
(* (ProjectEditor), brand generation (App) and chat reply (ChatWidget).    *)
(*                                                                         *)
(* React state is kept in two copies.  The hook state (data,               *)
(* selectedElementId, isGeneratingLogo; view, isGenerating; isLoading) is  *)
(* the state after every queued update has been applied in order.  The     *)
(* rendered copy (rendered, appRendered, chatRendered) is what the last    *)
(* render closed over: every handler reads state from it, and the DOM      *)
(* (which layers exist, which panel is shown, which buttons are disabled)  *)
(* shows it.  The updates a handler makes inside a discrete event          *)
(* (mousedown, mouseup, click, change, keydown) are flushed before the     *)
(* next event, so such a handler refreshes what it wrote in the rendered   *)
(* copy.  The updates made by a pointer-move or by the continuation of an  *)
(* awaited request are rendered by a later Render step, and other events   *)
(* may be handled before it.  Refs (isDragging, dragStart) are read and    *)
(* written directly.                                                       *)
(*                                                                         *)
(* While no editor is mounted, data and rendered hold the record of the    *)
(* project the next editor opens (the sync effect of the editor hands the  *)
(* data of every render to the project list).                              *)
(***************************************************************************)
EXTENDS Integers, Sequences, FiniteSets

\* ------------------------------------------------------------------ bounds
MaxLayers == 2      \* text layers in a design
MaxClock  == 2      \* values of Date.now() seen by the model
MaxUrl    == 2      \* distinct images the icon provider returns
MaxMoves  == 3      \* pointer-moves handled while a drag is on
MaxReq    == 2      \* provider requests outstanding at the same time
MaxProjects == 2    \* projects created in a run, the stored one included
MaxLines  == 60     \* lines a paragraph of the exported document wraps to
MaxSends  == 2      \* chat messages sent in a browser session

\* ------------------------------------------------------- program constants
DefaultWidth    == 400
DefaultHeight   == 400
WideWidth       == 500
WideHeight      == 300
DefaultIconSize == 150
TextYOffset     == 80
DefaultFontSize == 32
SliderMin       == 100
SliderMax       == 600
SpacingMin      == -5
SpacingMax      == 50
RotationMin     == 0
RotationMax     == 360
RadiusMin       == 0
RadiusMax       == 200
PaletteSize     == 5

\* document lengths are counted in fifths of a unit: a line of font size s is
\* s * 0.4 high, which is 2 * s fifths
Scale           == 5

\* the texts of the two alert() calls
LogoAlert  == "Failed to generate logo. Please try again."
BrandAlert == "Failed to generate brand identity. Please check API Key and try again."

\* the null selection; layer ids are the non-negative clock values
Null == -1

\* pointer position and drag history while no drag is on
NoPos == <<0, 0>>

Shapes == {"none", "square", "rounded", "circle", "triangle", "hexagon", "rectangle", "oval"}

\* clientX/clientY values of the pointer: a press happens at the first point
\* of PtrPath and the moves of a drag follow the path
PtrPath == <<<<10, 10>>, <<13, 10>>, <<13, 14>>, <<12, 13>>>>
PtrPositions == {PtrPath[i] : i \in 1..Len(PtrPath)}
PressPositions == {PtrPath[1]}
NextOnPath(q, p) == \E i \in 1..(Len(PtrPath) - 1) : PtrPath[i] = q /\ PtrPath[i + 1] = p

BgColors    == {"transparent", "#ffffff"}
Aligns      == {"left", "center"}
Prompts     == {"", "icon"}

\* what the icon provider answers where the image itself does not matter:
\* 0 is a rejection, 1 an image
IconOutcomes == {0, 1}
SliderSizes == {SliderMin, SliderMax}

\* values a slider of the text editor panel is asked for
SliderRequests == {-6, -5, 0, 370}

\* values the Corner Radius slider is asked for
RadiusRequests == {0, 40, 200, 201}
IconColors  == {"#111111", "#ff0000"}

VARIABLES
  data,               \* ProjectEditor useState: generatedData (visuals part)
  selectedElementId,  \* ProjectEditor useState: id of the selected text layer or Null
  isGeneratingLogo,   \* ProjectEditor useState: in-flight flag of icon generation
  rendered,           \* what the last render of ProjectEditor closed over
  isDragging,         \* useRef
  dragStart,          \* useRef: last pointer position of the drag
  ptr,                \* pointer: "up", "down", "click" (click event pending), "out"
  ptrPos,             \* where the pointer is while a drag is on, else NoPos
  clock,              \* Date.now()
  view,               \* App useState: "dashboard", "new" or "editor"
  isGenerating,       \* App useState: in-flight flag of brand generation
  appRendered,        \* what the last render of App closed over
  form,               \* App useState: industry and description are both non-empty
  isLoading,          \* ChatWidget useState: in-flight flag of the chat reply
  chatRendered,       \* isLoading as the last render of ChatWidget saw it
  input,              \* ChatWidget useState: the draft has non-blank text
  messages,           \* ChatWidget useState: the transcript
  bf_chat_session,    \* sessionStorage item 'bf_chat_session': the transcript last written
  logoPending,        \* icon requests of the mounted editor, in flight
  orphanPending,      \* icon requests in flight whose editor was unmounted
  logoSettled,        \* settled icon requests whose continuation has not run
  brandPending,       \* brand requests in flight
  brandSettled,       \* settled brand requests whose continuation has not run
  chatPending,        \* chat requests of the mounted widget, in flight
  chatSettled,        \* settled chat requests whose continuation has not run
  dragFrom,           \* history: position of the pressed layer at pointer-down
  dragSum,            \* history: sum of the pointer deltas since pointer-down
  dragFresh,          \* history: every move of this drag saw the up-to-date model
  moves,              \* history: number of moves handled during drags
  pressed,            \* history: the layer whose press and release are being handled
  wasIdle,            \* history: nothing was selected when that layer was pressed
  dragged,            \* history: a move was handled since that layer was pressed
  chosen,             \* history: the shape chosen last, "" once a size slider moved
  asked,              \* history: the value the last slider of the text panel was asked for
  notice,             \* history: the text of the last alert() the user was shown
  blocked,            \* history: the last call of createProject returned at once
  crashed,            \* a render of ProjectEditor threw: the application is gone
  projects,           \* App useState: the project list
  projectsRendered,   \* projects as the last render of App saw it
  selectedProject,    \* App useState: id of the project the editor shows, or Null
  bf_projects,        \* localStorage item 'bf_projects': the list last written
  brandClosures,      \* project lists the brand requests in flight closed over
  doc,                \* exportToPDF: the jsPDF document, the cursor y and where the run is
  effectDeps          \* ProjectEditor useEffect [data]: the data its effect last ran for

editor    == <<data, selectedElementId, isGeneratingLogo, rendered>>
refs      == <<isDragging, dragStart>>
pointer   == <<ptr, ptrPos>>
app       == <<view, isGenerating, appRendered, form>>
chat      == <<isLoading, chatRendered, input, messages, bf_chat_session>>
logoReqs  == <<logoPending, orphanPending, logoSettled>>
brandReqs == <<brandPending, brandSettled, brandClosures>>
chatReqs  == <<chatPending, chatSettled>>
gestures  == <<dragFrom, dragSum, dragFresh, moves, pressed, wasIdle, dragged, chosen, asked>>
hist      == <<gestures, notice, blocked>>
store     == <<projects, projectsRendered, selectedProject, bf_projects>>

\* state that no handler of App or of ChatWidget reads or writes
beyond    == <<crashed, doc, effectDeps>>

vars == <<editor, refs, pointer, clock, app, chat, logoReqs, brandReqs, chatReqs, hist,
          store, beyond>>

\* ------------------------------------------------------------ layer model
TextLayer(id, x, y) ==
  [id |-> id, text |-> "Brand Name", x |-> x, y |-> y, fontSize |-> DefaultFontSize,
   fontFamily |-> "Montserrat", color |-> "#111111", spacing |-> 0, rotation |-> 0,
   fontWeight |-> "bold", align |-> "center"]

SeedLogoSettings ==
  [bgColor |-> "transparent", shape |-> "none", width |-> DefaultWidth,
   height |-> DefaultHeight, borderRadius |-> 0, iconColor |-> "#111111",
   iconSize |-> DefaultIconSize, tintIcon |-> FALSE, textElements |-> <<>>]

\* the generated data of a new project
SeedData ==
  [logoIconUrl |-> 0, logoPrompt |-> "icon", logoSettings |-> SeedLogoSettings,
   story |-> "vision"]

\* { ...base, ...upd }
Spread(base, upd) ==
  [k \in (DOMAIN base) \cup (DOMAIN upd) |-> IF k \in DOMAIN upd THEN upd[k] ELSE base[k]]

\* data.visuals.logoSettings of a stored project that has none (undefined)
NoSettings == [absent |-> TRUE]

\* logoSettings as the previous schema declares it: no textElements, shape,
\* width or height
PreviousLogoSettings ==
  [fontFamily |-> "Montserrat", layout |-> "horizontal", spacing |-> 0,
   fontSize |-> DefaultFontSize, textColor |-> "#111111", bgColor |-> "transparent",
   iconColor |-> "#111111", iconSize |-> DefaultIconSize, borderRadius |-> 0,
   textAlignment |-> "center", tintIcon |-> FALSE]

\* the object a render uses when data.visuals.logoSettings is undefined
DefaultLogoSettings ==
  [bgColor |-> "transparent", shape |-> "none", width |-> DefaultWidth,
   height |-> DefaultHeight, borderRadius |-> 0, iconColor |-> "#111111",
   iconSize |-> DefaultIconSize, tintIcon |-> FALSE, textElements |-> <<>>]

\* s || { ... }: the default replaces the whole record, never a single field
OrDefault(s) == IF "absent" \in DOMAIN s THEN DefaultLogoSettings ELSE s

\* the logoSettings a render computes from its data
logoSettings == OrDefault(rendered.data.logoSettings)

\* a render of ProjectEditor on data d calls logoSettings.textElements.find and
\* .map: a TypeError when the record has no textElements
RenderThrows(d) == "textElements" \notin DOMAIN OrDefault(d.logoSettings)

\* setData({ ...data, visuals: { ...data.visuals, logoSettings: { ...logoSettings, ...newSettings } } })
updateLogoSettings(newSettings) ==
  [rendered.data EXCEPT !.logoSettings = Spread(logoSettings, newSettings)]

\* clip-path polygons, in percent of the container box
TrianglePath == <<<<50, 0>>, <<0, 100>>, <<100, 100>>>>
HexagonPath  == <<<<25, 0>>, <<75, 0>>, <<100, 50>>, <<75, 100>>, <<25, 100>>, <<0, 50>>>>
NoPath       == <<>>

\* a container style whose borderRadius chain has no oval branch
ContainerStyleNoOval(s) ==
  [borderRadius |->
     IF s.shape = "circle" THEN <<50, "%">>
     ELSE IF s.shape = "rounded" THEN <<40, "px">>
     ELSE IF s.shape = "square" \/ s.shape = "rectangle" THEN <<0, "px">>
     ELSE <<s.borderRadius, "px">>,
   clipPath |->
     IF s.shape = "triangle" THEN TrianglePath
     ELSE IF s.shape = "hexagon" THEN HexagonPath
     ELSE NoPath]

\* borderRadius and clipPath of the style of the container div
ContainerStyle(s) ==
  [borderRadius |->
     IF s.shape = "circle" THEN <<50, "%">>
     ELSE IF s.shape = "oval" THEN <<50, "%">>
     ELSE IF s.shape = "rounded" THEN <<40, "px">>
     ELSE IF s.shape = "square" \/ s.shape = "rectangle" THEN <<0, "px">>
     ELSE <<s.borderRadius, "px">>,
   clipPath |->
     IF s.shape = "triangle" THEN TrianglePath
     ELSE IF s.shape = "hexagon" THEN HexagonPath
     ELSE NoPath]

\* the icon layer of a render on data d: the placeholder when there is no
\* image, else the img (filter, opacity) and the mask div, if any
IconRender(d) ==
  LET s == OrDefault(d.logoSettings) IN
    IF d.logoIconUrl = 0
    THEN [img |-> "placeholder"]
    ELSE [img |-> <<d.logoIconUrl,
                    IF s.tintIcon THEN "grayscale(100%) brightness(0)" ELSE "none",
                    IF s.tintIcon THEN 0 ELSE 1>>,
          mask |-> IF s.tintIcon THEN <<s.iconColor, d.logoIconUrl>> ELSE <<>>]

Ids(elements) == {elements[i].id : i \in 1..Len(elements)}

\* textElements.find(el => el.id === id): index of the first match, 0 when none
FindIndex(elements, id) ==
  IF id \in Ids(elements)
  THEN CHOOSE i \in 1..Len(elements) :
         /\ elements[i].id = id
         /\ \A j \in 1..(i - 1) : elements[j].id # id
  ELSE 0

\* a map that adds the update as a new layer when no layer has the id
MapUpdateUpsert(elements, id, updates) ==
  IF id \in Ids(elements)
  THEN [i \in 1..Len(elements) |->
          IF elements[i].id = id THEN Spread(elements[i], updates) ELSE elements[i]]
  ELSE Append(elements, Spread([id |-> id], updates))

\* a map that puts the updated layers after all others
MapUpdateToFront(elements, id, updates) ==
  SelectSeq(elements, LAMBDA el : el.id # id)
    \o [i \in 1..Len(SelectSeq(elements, LAMBDA el : el.id = id)) |->
          Spread(SelectSeq(elements, LAMBDA el : el.id = id)[i], updates)]

\* textElements.map(el => el.id === id ? { ...el, ...updates } : el)
MapUpdate(elements, id, updates) ==
  [i \in 1..Len(elements) |->
     IF elements[i].id = id THEN Spread(elements[i], updates) ELSE elements[i]]

\* textElements.filter(el => el.id !== id)
FilterOut(elements, id) == SelectSeq(elements, LAMBDA el : el.id # id)

\* <<x, y>> of the first layer with this id
PosOf(elements, id) ==
  LET i == FindIndex(elements, id) IN
    IF i = 0 THEN NoPos ELSE <<elements[i].x, elements[i].y>>

\* the data updateSelectedText stores; it returns early when nothing is selected
updateSelectedText(updates) ==
  IF rendered.selectedElementId = Null THEN data
  ELSE updateLogoSettings(
         [textElements |-> MapUpdate(logoSettings.textElements,
                                     rendered.selectedElementId, updates)])

activeTextElement == FindIndex(logoSettings.textElements, rendered.selectedElementId)

Snapshot(d, s, g) == [data |-> d, selectedElementId |-> s, isGeneratingLogo |-> g]

AppSnapshot(v, g) == [view |-> v, isGenerating |-> g]

EditorMounted == appRendered.view = "editor" /\ ~crashed

\* provider requests that have not been answered and resumed
Outstanding ==
  logoPending + orphanPending + Len(logoSettled) + brandPending + Len(brandSettled)
  + chatPending + Len(chatSettled)

\* ------------------------------------------------------------ project list
\* names a project gets from the provider and from the rename prompt
Names == {"Acme", "Nova"}

NoProject == [id |-> Null, name |-> "", generatedData |-> SeedData]

\* the dependencies of an effect that has not run: no editor was mounted yet
NoDeps == [mounted |-> FALSE]

ProjectIds(list) == {list[i].id : i \in 1..Len(list)}

\* every project id the application or the store still holds
IdsInUse ==
  ProjectIds(projects) \cup ProjectIds(projectsRendered) \cup ProjectIds(bf_projects)
  \cup UNION {ProjectIds(brandClosures[i]) : i \in 1..Len(brandClosures)}
  \cup UNION {ProjectIds(brandSettled[i].projects) : i \in 1..Len(brandSettled)}

\* Date.now() when a project is created: creations are a provider round trip
\* apart, so the id is one that no project in use has
NewProjectId == 1 + (CHOOSE m \in IdsInUse \cup {0} : \A n \in IdsInUse : n <= m)

\* the project createProject builds from the provider's data
NewProject == [id |-> NewProjectId, name |-> "Acme", generatedData |-> SeedData]

\* the save effect of App, run after a render that saw a new list: an empty
\* list is not written
SaveEffect(list) == bf_projects' = IF Len(list) > 0 THEN list ELSE bf_projects

\* a handler of a discrete event replaces the list: App renders with it and
\* the save effect runs
setProjects(list) ==
  /\ projects' = list
  /\ projectsRendered' = list
  /\ SaveEffect(list)

\* --------------------------------------------------------- document export
Bottom == 280 * Scale
Margin == 20 * Scale
Gap    == 6 * Scale

\* the statements of exportToPDF after its early return, in order: the cover
\* page, doc.addPage() with y = 20, addText(text, size), y += by, the palette
\* swatches, doc.save().  free marks the texts taken from the project
ExportScript ==
  <<[op |-> "cover"],
    [op |-> "page"],
    [op |-> "text", size |-> 18, free |-> FALSE],
    [op |-> "gap", by |-> 5],
    [op |-> "text", size |-> 12, free |-> TRUE],
    [op |-> "text", size |-> 12, free |-> FALSE],
    [op |-> "gap", by |-> 5],
    [op |-> "text", size |-> 14, free |-> FALSE],
    [op |-> "text", size |-> 11, free |-> TRUE],
    [op |-> "gap", by |-> 2],
    [op |-> "text", size |-> 11, free |-> TRUE],
    [op |-> "gap", by |-> 10],
    [op |-> "text", size |-> 14, free |-> FALSE],
    [op |-> "text", size |-> 11, free |-> TRUE],
    [op |-> "page"],
    [op |-> "text", size |-> 18, free |-> FALSE],
    [op |-> "gap", by |-> 5],
    [op |-> "text", size |-> 14, free |-> FALSE],
    [op |-> "palette"],
    [op |-> "text", size |-> 14, free |-> FALSE],
    [op |-> "text", size |-> 11, free |-> FALSE],
    [op |-> "text", size |-> 11, free |-> FALSE],
    [op |-> "text", size |-> 11, free |-> FALSE],
    [op |-> "gap", by |-> 10],
    [op |-> "text", size |-> 14, free |-> FALSE],
    [op |-> "text", size |-> 11, free |-> TRUE],
    [op |-> "save"]>>

\* line counts doc.splitTextToSize gives for a text of the project
LineCounts == {1, MaxLines \div 2, MaxLines}

\* the projects exportToPDF is given: with generated data and a palette at the
\* selected index, without generatedData, without a palette at that index
ExportInputs == {"full", "noData", "noPalette"}

\* no export has run.  pc is the statement of ExportScript that runs next (0
\* outside a run), block the page, position and height of the text placed
\* last, layers the text layers of the design drawn into the document
NoDoc ==
  [pc |-> 0, project |-> "full", y |-> 0, pages |-> 0, icon |-> "none", layers |-> <<>>,
   block |-> <<0, 0, 0>>, logged |-> FALSE, result |-> "none"]

\* the statement of the export that runs next
Op == IF doc.pc = 0 THEN "" ELSE ExportScript[doc.pc].op

\* PDF Brand Kit button: new jsPDF() and the early return
exportToPDF(project) ==
  /\ EditorMounted
  /\ doc.pc = 0
  /\ doc' = IF project = "noData"
            THEN [NoDoc EXCEPT !.project = project, !.result = "returned"]
            ELSE [NoDoc EXCEPT !.project = project, !.pc = 1, !.pages = 1, !.y = Margin]
  /\ UNCHANGED <<editor, refs, pointer, clock, logoReqs, hist, app, chat, brandReqs, chatReqs,
                 store, crashed, effectDeps>>

\* a cover whose addImage is not inside a try
CoverIconUncaught(url, decodes) ==
  IF url = 0 THEN "none" ELSE IF decodes THEN "drawn" ELSE "threw"

\* if (d.visuals.logoIconUrl) { try { doc.addImage(...) } catch(e) { console.error(e) } }
CoverIcon(url, decodes) ==
  IF url = 0 THEN "none" ELSE IF decodes THEN "drawn" ELSE "skipped"

\* page 1: the brand name, the icon of the project (the data of the last
\* render, handed over by the sync effect) and the footer
exportCover ==
  /\ Op = "cover"
  /\ \E decodes \in BOOLEAN :
       LET icon == CoverIcon(rendered.data.logoIconUrl, decodes) IN
         doc' = IF icon = "threw"
                THEN [doc EXCEPT !.pc = 0, !.icon = icon, !.result = "threw"]
                ELSE [doc EXCEPT !.pc = @ + 1, !.icon = icon, !.logged = (icon = "skipped")]
  /\ UNCHANGED <<editor, refs, pointer, clock, logoReqs, hist, app, chat, brandReqs, chatReqs,
                 store, crashed, effectDeps>>

\* doc.addPage(); y = 20
exportAddPage ==
  /\ Op = "page"
  /\ doc' = [doc EXCEPT !.pc = @ + 1, !.pages = @ + 1, !.y = Margin]
  /\ UNCHANGED <<editor, refs, pointer, clock, logoReqs, hist, app, chat, brandReqs, chatReqs,
                 store, crashed, effectDeps>>

\* y += by
exportGap ==
  /\ Op = "gap"
  /\ doc' = [doc EXCEPT !.pc = @ + 1, !.y = @ + ExportScript[doc.pc].by * Scale]
  /\ UNCHANGED <<editor, refs, pointer, clock, logoReqs, hist, app, chat, brandReqs, chatReqs,
                 store, crashed, effectDeps>>

\* an addText that never starts a page
BreaksNever(y, h) == FALSE

\* y + (lines.length * size * 0.4) > 280
Breaks(y, h) == y + h > Bottom

\* addText of a text that wraps to n lines
addText(n) ==
  /\ Op = "text"
  /\ ExportScript[doc.pc].free \/ n = 1
  /\ LET h  == n * ExportScript[doc.pc].size * 2
         pg == IF Breaks(doc.y, h) THEN doc.pages + 1 ELSE doc.pages
         at == IF Breaks(doc.y, h) THEN Margin ELSE doc.y
     IN  doc' = [doc EXCEPT !.pc = @ + 1, !.pages = pg, !.block = <<pg, at, h>>,
                            !.y = at + h + Gap]
  /\ UNCHANGED <<editor, refs, pointer, clock, logoReqs, hist, app, chat, brandReqs, chatReqs,
                 store, crashed, effectDeps>>

\* palette.colors.forEach(...): a TypeError when no palette is at the index;
\* y += 50
exportPalette ==
  /\ Op = "palette"
  /\ doc' = IF doc.project = "noPalette"
            THEN [doc EXCEPT !.pc = 0, !.result = "threw"]
            ELSE [doc EXCEPT !.pc = @ + 1, !.y = @ + 50 * Scale]
  /\ UNCHANGED <<editor, refs, pointer, clock, logoReqs, hist, app, chat, brandReqs, chatReqs,
                 store, crashed, effectDeps>>

\* doc.save(...)
exportSave ==
  /\ Op = "save"
  /\ doc' = [doc EXCEPT !.pc = 0, !.result = "saved"]
  /\ UNCHANGED <<editor, refs, pointer, clock, logoReqs, hist, app, chat, brandReqs, chatReqs,
                 store, crashed, effectDeps>>

\* ------------------------------------------------------------------- Init
\* an editor is open on a stored project that has one text layer
StoredLayers == <<TextLayer(0, 100, 100)>>
StoredData == [SeedData EXCEPT !.logoSettings.textElements = StoredLayers]
\* the store holds all but one of the projects a run can have
StoredProjects ==
  [i \in 1..(MaxProjects - 1) |-> [id |-> i, name |-> "Acme", generatedData |-> StoredData]]

\* values of generatedData the editor hands to updateProject: the data of a
\* new project and the data of a stored one
GeneratedVersions == {SeedData, StoredData}

\* the application on view v, the editor (open when v is "editor") on the
\* stored project p whose generated data is d
Start(d, v, p) ==
  /\ data = d
  /\ selectedElementId = Null
  /\ isGeneratingLogo = FALSE
  /\ rendered = Snapshot(data, Null, FALSE)
  /\ isDragging = FALSE
  /\ dragStart = <<0, 0>>
  /\ ptr = "up"
  /\ ptrPos = NoPos
  /\ clock = 1
  /\ view = v
  /\ isGenerating = FALSE
  /\ appRendered = AppSnapshot(v, FALSE)
  /\ form = FALSE
  /\ isLoading = FALSE
  /\ chatRendered = FALSE
  /\ input = FALSE
  /\ messages = <<>>
  /\ bf_chat_session = <<>>
  /\ logoPending = 0
  /\ orphanPending = 0
  /\ logoSettled = <<>>
  /\ brandPending = 0
  /\ brandSettled = <<>>
  /\ chatPending = 0
  /\ chatSettled = <<>>
  /\ dragFrom = NoPos
  /\ dragSum = NoPos
  /\ dragFresh = TRUE
  /\ moves = 0
  /\ pressed = Null
  /\ wasIdle = FALSE
  /\ dragged = FALSE
  /\ chosen = ""
  /\ asked = <<"", 0>>
  /\ notice = ""
  /\ blocked = FALSE
  /\ crashed = FALSE
  /\ projects = StoredProjects
  /\ projectsRendered = StoredProjects
  /\ selectedProject = p
  /\ bf_projects = StoredProjects
  /\ brandClosures = <<>>
  /\ doc = NoDoc
  /\ effectDeps = IF v = "editor" THEN d ELSE NoDeps

Init == Start(StoredData, "editor", StoredProjects[1])

\* ---------------------------------------------------------------- render
IsFresh == rendered = Snapshot(data, selectedElementId, isGeneratingLogo)

\* ProjectEditor re-renders with the queued updates
Render ==
  /\ EditorMounted
  /\ ~IsFresh
  /\ rendered' = Snapshot(data, selectedElementId, isGeneratingLogo)
  /\ UNCHANGED <<data, selectedElementId, isGeneratingLogo, refs, pointer, clock, app, chat,
                 logoReqs, brandReqs, chatReqs, hist, store, beyond>>

\* what the handlers of ProjectEditor leave alone
outside == <<app, chat, brandReqs, chatReqs, store, beyond>>

\* ----------------------------------------------------- canvas controller
\* onMouseDown of a rendered text layer, pointer at p
handleMouseDown(id, p) ==
  /\ EditorMounted
  /\ ptr = "up"
  /\ id \in Ids(logoSettings.textElements)
  /\ selectedElementId' = id
  /\ rendered' = [rendered EXCEPT !.selectedElementId = id]
  /\ isDragging' = TRUE
  /\ dragStart' = p
  /\ ptr' = "down"
  /\ ptrPos' = p
  /\ dragFresh' = (rendered.data = data)
  /\ dragFrom' = IF dragFresh' THEN PosOf(data.logoSettings.textElements, id) ELSE NoPos
  /\ dragSum' = NoPos
  /\ pressed' = id
  /\ wasIdle' = (selectedElementId = Null)
  /\ dragged' = FALSE
  /\ UNCHANGED <<data, isGeneratingLogo, clock, logoReqs, moves, chosen, asked, notice, blocked, outside>>

\* pointer-down on the canvas outside every text layer: no handler runs
PressBackground ==
  /\ EditorMounted
  /\ ptr = "up"
  /\ ptr' = "down"
  /\ UNCHANGED <<editor, refs, ptrPos, clock, logoReqs, hist, outside>>

\* a delta whose dy is computed from clientX
dragDeltaSameAxis(p) == <<p[1] - dragStart[1], p[1] - dragStart[1]>>

\* dx = e.clientX - dragStart.current.x, dy = e.clientY - dragStart.current.y
dragDelta(p) == <<p[1] - dragStart[1], p[2] - dragStart[2]>>

\* canvas onMouseMove, pointer at p
handleMouseMove(p) ==
  /\ EditorMounted
  /\ ptr \in {"up", "down"}
  /\ IF ~isDragging \/ rendered.selectedElementId = Null
     THEN UNCHANGED <<data, dragStart, ptrPos, hist>>
     ELSE /\ moves < MaxMoves
          /\ NextOnPath(ptrPos, p)
          /\ ptrPos' = p
          /\ moves' = moves + 1
          /\ dragFresh' = (dragFresh /\ rendered.data = data)
          /\ dragFrom' = IF dragFresh' THEN dragFrom ELSE NoPos
          /\ dragSum' = IF dragFresh'
                        THEN <<dragSum[1] + p[1] - ptrPos[1], dragSum[2] + p[2] - ptrPos[2]>>
                        ELSE NoPos
          /\ LET dx == dragDelta(p)[1]
                 dy == dragDelta(p)[2]
                 i  == activeTextElement
             IN  IF i # 0
                 THEN data' = updateSelectedText(
                                [x |-> logoSettings.textElements[i].x + dx,
                                 y |-> logoSettings.textElements[i].y + dy])
                 ELSE UNCHANGED data
          /\ dragStart' = p
          /\ dragged' = TRUE
          /\ UNCHANGED <<pressed, wasIdle, chosen, asked, notice, blocked>>
  /\ UNCHANGED <<selectedElementId, isGeneratingLogo, rendered, isDragging, ptr, clock,
                 logoReqs, outside>>

\* isDragging.current = false; the history of the drag is dropped with it
EndDrag ==
  /\ isDragging' = FALSE
  /\ ptrPos' = NoPos
  /\ dragFrom' = NoPos
  /\ dragSum' = NoPos
  /\ dragFresh' = TRUE
  /\ UNCHANGED <<moves, chosen, asked, notice, blocked>>

\* the last handler of a press and its release has run
EndGesture ==
  /\ pressed' = Null
  /\ wasIdle' = FALSE
  /\ dragged' = FALSE

\* canvas onMouseUp; the click event of the same press follows
handleMouseUp ==
  /\ EditorMounted
  /\ ptr = "down"
  /\ EndDrag
  /\ ptr' = "click"
  /\ UNCHANGED <<editor, dragStart, clock, logoReqs, pressed, wasIdle, dragged, outside>>

\* canvas onClick: the click of every press released inside the canvas reaches it
canvasClick ==
  /\ EditorMounted
  /\ ptr = "click"
  /\ selectedElementId' = Null
  /\ rendered' = [rendered EXCEPT !.selectedElementId = Null]
  /\ ptr' = "up"
  /\ EndGesture
  /\ UNCHANGED <<data, isGeneratingLogo, refs, ptrPos, clock, logoReqs, dragFrom, dragSum,
                 dragFresh, moves, chosen, asked, notice, blocked, outside>>

\* canvas onMouseLeave = handleMouseUp
handleMouseLeave ==
  /\ EditorMounted
  /\ ptr \in {"up", "down"}
  /\ EndDrag
  /\ ptr' = IF ptr = "down" THEN "out" ELSE "up"
  /\ EndGesture
  /\ UNCHANGED <<editor, dragStart, clock, logoReqs, outside>>

\* the button is released outside the canvas: no handler of the canvas runs
ReleaseOutside ==
  /\ ptr = "out"
  /\ ptr' = "up"
  /\ UNCHANGED <<editor, refs, ptrPos, clock, logoReqs, hist, outside>>

\* the pointer comes back over the canvas with the button still held
ReEnter ==
  /\ ptr = "out"
  /\ ptr' = "down"
  /\ UNCHANGED <<editor, refs, ptrPos, clock, logoReqs, hist, outside>>

\* -------------------------------------------------------- layer operations
\* addTextElement at time t = Date.now()
addTextElement(t) ==
  /\ EditorMounted
  /\ ptr = "up"
  /\ Len(logoSettings.textElements) < MaxLayers
  /\ t >= clock
  /\ clock' = t
  /\ LET newText == TextLayer(t, logoSettings.width \div 2,
                              logoSettings.height \div 2 + TextYOffset)
     IN  /\ data' = updateLogoSettings(
                      [textElements |-> Append(logoSettings.textElements, newText)])
         /\ selectedElementId' = newText.id
         /\ rendered' = Snapshot(data', newText.id, rendered.isGeneratingLogo)
  /\ UNCHANGED <<isGeneratingLogo, refs, pointer, logoReqs, hist, outside>>

\* updateSelectedText from the text editor panel, shown while activeTextElement exists
panelUpdateText(updates) ==
  /\ EditorMounted
  /\ ptr = "up"
  /\ activeTextElement # 0
  /\ data' = updateSelectedText(updates)
  /\ rendered' = [rendered EXCEPT !.data = data']
  /\ UNCHANGED <<selectedElementId, isGeneratingLogo, refs, pointer, clock, logoReqs,
                 dragFrom, dragSum, dragFresh, moves, pressed, wasIdle, dragged, chosen,
                 notice, blocked, outside>>

\* onClick of an alignment button of the text editor panel
setAlign(a) == panelUpdateText([align |-> a]) /\ UNCHANGED asked

\* an <input type="range"> whose min attribute is ignored
RangeValueNoMin(min, max, v) == IF v > max THEN max ELSE v

\* e.target.value of an <input type="range" min max> asked for v: the element
\* holds no value outside min..max
RangeValue(min, max, v) == IF v < min THEN min ELSE IF v > max THEN max ELSE v

\* onChange of the Spacing slider
setSpacing(v) ==
  /\ panelUpdateText([spacing |-> RangeValue(SpacingMin, SpacingMax, v)])
  /\ asked' = <<"spacing", v>>

\* onChange of the Rotation slider
setRotation(v) ==
  /\ panelUpdateText([rotation |-> RangeValue(RotationMin, RotationMax, v)])
  /\ asked' = <<"rotation", v>>

\* a Delete handler that leaves selectedElementId as it is
deleteSelectedTextKeepsSelection ==
  /\ EditorMounted
  /\ ptr = "up"
  /\ rendered.selectedElementId # Null
  /\ data' = updateLogoSettings(
               [textElements |-> FilterOut(logoSettings.textElements,
                                           rendered.selectedElementId)])
  /\ rendered' = Snapshot(data', rendered.selectedElementId, rendered.isGeneratingLogo)
  /\ UNCHANGED <<selectedElementId, isGeneratingLogo, refs, pointer, clock, logoReqs, hist,
                 outside>>

\* Delete button, rendered while selectedElementId is set
deleteSelectedText ==
  /\ EditorMounted
  /\ ptr = "up"
  /\ rendered.selectedElementId # Null
  /\ data' = updateLogoSettings(
               [textElements |-> FilterOut(logoSettings.textElements,
                                           rendered.selectedElementId)])
  /\ selectedElementId' = Null
  /\ rendered' = Snapshot(data', Null, rendered.isGeneratingLogo)
  /\ UNCHANGED <<isGeneratingLogo, refs, pointer, clock, logoReqs, hist, outside>>

\* an X button that is wired to the Delete handler
closeTextEditorDeletes == activeTextElement # 0 /\ deleteSelectedText

\* X button of the text editor panel
closeTextEditor ==
  /\ EditorMounted
  /\ ptr = "up"
  /\ activeTextElement # 0
  /\ selectedElementId' = Null
  /\ rendered' = [rendered EXCEPT !.selectedElementId = Null]
  /\ UNCHANGED <<data, isGeneratingLogo, refs, pointer, clock, logoReqs, hist, outside>>

\* a control of the Shape & Background panel, shown while no text layer is active
panelUpdateContainer(newSettings) ==
  /\ EditorMounted
  /\ ptr = "up"
  /\ activeTextElement = 0
  /\ data' = updateLogoSettings(newSettings)
  /\ rendered' = [rendered EXCEPT !.data = data']
  /\ UNCHANGED <<selectedElementId, isGeneratingLogo, refs, pointer, clock, logoReqs,
                 dragFrom, dragSum, dragFresh, moves, pressed, wasIdle, dragged, asked,
                 notice, blocked, outside>>

\* a shape button whose oval branch sets no size
ShapeUpdatesOvalKeepsSize(s) ==
  IF s = "rectangle" THEN [shape |-> s, width |-> WideWidth, height |-> WideHeight]
  ELSE IF s = "oval" THEN [shape |-> s]
  ELSE [shape |-> s, width |-> DefaultWidth, height |-> DefaultHeight]

\* the updates a shape button builds
ShapeUpdates(s) ==
  IF s = "rectangle" THEN [shape |-> s, width |-> WideWidth, height |-> WideHeight]
  ELSE IF s = "oval" THEN [shape |-> s, width |-> WideWidth, height |-> WideHeight]
  ELSE [shape |-> s, width |-> DefaultWidth, height |-> DefaultHeight]

\* onClick of the button of shape s
setShape(s) == panelUpdateContainer(ShapeUpdates(s)) /\ chosen' = s

\* onChange of the background colour input, and the Clear Background button
setBgColor(c) == panelUpdateContainer([bgColor |-> c]) /\ UNCHANGED chosen

\* onChange of the width slider
setWidth(w) == panelUpdateContainer([width |-> w]) /\ chosen' = ""

\* onChange of the height slider
setHeight(h) == panelUpdateContainer([height |-> h]) /\ chosen' = ""

\* onChange of the Corner Radius slider, rendered while the shape is rounded
setBorderRadius(v) ==
  /\ logoSettings.shape = "rounded"
  /\ panelUpdateContainer([borderRadius |-> RangeValue(RadiusMin, RadiusMax, v)])
  /\ UNCHANGED chosen

\* onChange of the Tint Icon checkbox: e.target.checked is the opposite of
\* the rendered tintIcon
setTintIcon(b) ==
  /\ b # logoSettings.tintIcon
  /\ panelUpdateContainer([tintIcon |-> b])
  /\ UNCHANGED chosen

\* onChange of the Icon Color input, rendered while tintIcon is set
setIconColor(c) ==
  /\ logoSettings.tintIcon
  /\ panelUpdateContainer([iconColor |-> c])
  /\ UNCHANGED chosen

\* onChange of the prompt input
setLogoPrompt(v) ==
  /\ EditorMounted
  /\ ptr = "up"
  /\ data' = [rendered.data EXCEPT !.logoPrompt = v]
  /\ rendered' = [rendered EXCEPT !.data = data']
  /\ UNCHANGED <<selectedElementId, isGeneratingLogo, refs, pointer, clock, logoReqs, hist,
                 outside>>

\* onChange of a textarea of the story and of the marketing cards:
\* setData({...data, story: {...data.story, vision: e.target.value}})
setStory(v) ==
  /\ EditorMounted
  /\ ptr = "up"
  /\ data' = [rendered.data EXCEPT !.story = v]
  /\ rendered' = [rendered EXCEPT !.data = data']
  /\ UNCHANGED <<selectedElementId, isGeneratingLogo, refs, pointer, clock, logoReqs, hist,
                 outside>>

\* --------------------------------------------------------- icon generation
\* Button: disabled={isLoading || props.disabled}; the Generate button passes
\* isLoading={isGeneratingLogo} and no disabled
GenerateDisabled == rendered.isGeneratingLogo

\* handleGenerateLogo up to its await
handleGenerateLogo ==
  /\ EditorMounted
  /\ ptr = "up"
  /\ ~GenerateDisabled
  /\ IF rendered.data.logoPrompt = ""
     THEN UNCHANGED <<isGeneratingLogo, rendered, logoPending>>
     ELSE /\ Outstanding < MaxReq
          /\ isGeneratingLogo' = TRUE
          /\ rendered' = [rendered EXCEPT !.isGeneratingLogo = TRUE]
          /\ logoPending' = logoPending + 1
  /\ UNCHANGED <<data, selectedElementId, refs, pointer, clock, orphanPending, logoSettled,
                 hist, outside>>

\* generateLogoWithStability settles: url 0 is a rejection, any other an image
logoProviderSettles(url) ==
  /\ logoPending > 0
  /\ logoPending' = logoPending - 1
  /\ logoSettled' = Append(logoSettled, url)
  /\ UNCHANGED <<editor, refs, pointer, clock, orphanPending, hist, outside>>

\* a continuation that clears the flag after the image is stored, not in a finally
handleGenerateLogoResumeNoFinally ==
  /\ logoSettled # <<>>
  /\ IF Head(logoSettled) # 0
     THEN data' = [data EXCEPT !.logoIconUrl = Head(logoSettled)] /\ isGeneratingLogo' = FALSE
     ELSE UNCHANGED <<data, isGeneratingLogo>>
  /\ notice' = IF Head(logoSettled) # 0 THEN notice ELSE LogoAlert
  /\ logoSettled' = Tail(logoSettled)
  /\ UNCHANGED <<selectedElementId, rendered, refs, pointer, clock, logoPending,
                 orphanPending, gestures, blocked, outside>>

\* handleGenerateLogo after its await: try / catch / finally
handleGenerateLogoResume ==
  /\ logoSettled # <<>>
  /\ data' = IF Head(logoSettled) # 0
             THEN [data EXCEPT !.logoIconUrl = Head(logoSettled)]
             ELSE data
  /\ notice' = IF Head(logoSettled) # 0 THEN notice ELSE LogoAlert
  /\ isGeneratingLogo' = FALSE
  /\ logoSettled' = Tail(logoSettled)
  /\ UNCHANGED <<selectedElementId, rendered, refs, pointer, clock, logoPending,
                 orphanPending, gestures, blocked, outside>>

\* a request of an unmounted editor settles and its continuation runs: the
\* state updates go nowhere, the alert of a rejection is shown
orphanSettles(url) ==
  /\ orphanPending > 0
  /\ orphanPending' = orphanPending - 1
  /\ notice' = IF url # 0 THEN notice ELSE LogoAlert
  /\ UNCHANGED <<editor, refs, pointer, clock, logoPending, logoSettled, gestures,
                 blocked, outside>>

\* ------------------------------------------------------------- navigation
\* the ChatWidget of the view that is left is unmounted, that of the new view mounts
RemountChat ==
  /\ isLoading' = FALSE
  /\ chatRendered' = FALSE
  /\ input' = FALSE
  /\ messages' = bf_chat_session
  /\ UNCHANGED bf_chat_session
  /\ chatPending' = 0
  /\ chatSettled' = <<>>

\* ProjectEditor is unmounted: the project keeps the data of the last render,
\* and the next editor starts from its initial state
UnmountEditor ==
  /\ data' = rendered.data
  /\ selectedElementId' = Null
  /\ isGeneratingLogo' = FALSE
  /\ rendered' = Snapshot(rendered.data, Null, FALSE)
  /\ isDragging' = FALSE
  /\ dragStart' = <<0, 0>>
  /\ orphanPending' = orphanPending + logoPending
  /\ logoPending' = 0
  /\ logoSettled' = <<>>

\* Back to Dashboard button of the editor
onBack ==
  /\ EditorMounted
  /\ ptr = "up"
  /\ view' = "dashboard"
  /\ appRendered' = [appRendered EXCEPT !.view = "dashboard"]
  /\ UnmountEditor
  /\ RemountChat
  /\ UNCHANGED <<pointer, clock, isGenerating, form, brandReqs, hist, store, beyond>>

\* a project card of the dashboard is opened
onSelect ==
  /\ appRendered.view = "dashboard"
  /\ ~crashed
  /\ \E i \in 1..Len(projectsRendered) : selectedProject' = projectsRendered[i]
  /\ view' = "editor"
  /\ appRendered' = [appRendered EXCEPT !.view = "editor"]
  /\ RemountChat
  /\ crashed' = RenderThrows(data)
  /\ UNCHANGED <<editor, refs, pointer, clock, isGenerating, form, logoReqs, brandReqs, hist,
                 projects, projectsRendered, bf_projects, doc, effectDeps>>

\* New Project button of the dashboard (handleNewProject)
handleNewProject ==
  /\ appRendered.view = "dashboard"
  /\ form' = FALSE
  /\ view' = "new"
  /\ appRendered' = [appRendered EXCEPT !.view = "new"]
  /\ RemountChat
  /\ UNCHANGED <<editor, refs, pointer, clock, isGenerating, logoReqs, brandReqs, hist,
                 store, beyond>>

\* back button of the New Brand Project view
backFromNew ==
  /\ appRendered.view = "new"
  /\ view' = "dashboard"
  /\ appRendered' = [appRendered EXCEPT !.view = "dashboard"]
  /\ RemountChat
  /\ UNCHANGED <<editor, refs, pointer, clock, isGenerating, form, logoReqs, brandReqs, hist,
                 store, beyond>>

\* industry and description inputs: b says whether both are now non-empty
setForm(b) ==
  /\ appRendered.view = "new"
  /\ form' = b
  /\ UNCHANGED <<editor, refs, pointer, clock, view, isGenerating, appRendered, chat,
                 logoReqs, brandReqs, chatReqs, hist, store, beyond>>

\* ------------------------------------------------------- brand generation
\* Button spreads its props after its own disabled attribute, so the button is
\* disabled exactly when industry or description is empty
CreateDisabled == ~form

\* a createProject that has no check of its own and a button that is never
\* disabled: the request goes out whatever the form holds
createProjectUnchecked ==
  /\ appRendered.view = "new"
  /\ Outstanding < MaxReq
  /\ isGenerating' = TRUE
  /\ appRendered' = [appRendered EXCEPT !.isGenerating = TRUE]
  /\ brandPending' = brandPending + 1
  /\ brandClosures' = Append(brandClosures, projectsRendered)
  /\ blocked' = FALSE
  /\ UNCHANGED <<editor, refs, pointer, clock, view, form, chat, logoReqs, brandSettled,
                 chatReqs, gestures, notice, store, beyond>>

\* createProject up to its await.  With an empty industry or description the
\* button is disabled and the handler returns on its first line; otherwise the
\* flag is set and the request goes out
createProject ==
  /\ appRendered.view = "new"
  /\ IF CreateDisabled \/ ~form
     THEN /\ blocked' = TRUE
          /\ UNCHANGED <<isGenerating, appRendered, brandPending, brandClosures>>
     ELSE /\ Outstanding < MaxReq
          /\ isGenerating' = TRUE
          /\ appRendered' = [appRendered EXCEPT !.isGenerating = TRUE]
          /\ brandPending' = brandPending + 1
          /\ brandClosures' = Append(brandClosures, projectsRendered)
          /\ blocked' = FALSE
  /\ UNCHANGED <<editor, refs, pointer, clock, view, form, chat, logoReqs, brandSettled,
                 chatReqs, gestures, notice, store, beyond>>

\* the parts of the bundle the response schema asks the provider for
Parts == {"names", "story", "marketing", "visuals", "palettes", "fonts", "logoPrompt"}

\* palettes, fonts and logoPrompt are properties of visuals
Inside(p) == IF p = "visuals" THEN {"visuals", "palettes", "fonts", "logoPrompt"} ELSE {p}

\* a response of the provider: text says that response.text is not empty,
\* json that it parses, parts which parts the parsed object holds (names and
\* palettes with a first entry), colours how many colours the first palette has
Complete == [text |-> TRUE, json |-> TRUE, parts |-> Parts, colours |-> PaletteSize]
NoText == [Complete EXCEPT !.text = FALSE]
Lacking(p) == [Complete EXCEPT !.parts = Parts \ Inside(p)]

Responses ==
  {Complete, NoText, [Complete EXCEPT !.json = FALSE]}
  \cup {Lacking(p) : p \in Parts}
  \cup {[Complete EXCEPT !.colours = n] : n \in {0, PaletteSize - 1}}

\* generateBrandIdentity resolves on the response r: the text is not empty,
\* JSON.parse does not throw, parsed.visuals can be written to and
\* parsed.visuals.palettes[0].colors[0] can be read (undefined when the palette
\* has no colour); nothing else of the parsed object is looked at
Resolves(r) ==
  /\ r.text
  /\ r.json
  /\ "visuals" \in r.parts
  /\ "palettes" \in r.parts

\* the try block of createProject reaches setProjects: the call resolved and
\* data.names[0].name can be read
Creates(r) == Resolves(r) /\ "names" \in r.parts

\* generateBrandIdentity settles on the response r, for any of the requests in
\* flight.  At most MaxProjects projects are ever created
brandProviderAnswers(r) ==
  /\ brandPending > 0
  /\ Creates(r) =>
       NewProjectId + Cardinality({j \in 1..Len(brandSettled) : Creates(brandSettled[j].resp)})
         <= MaxProjects
  /\ brandPending' = brandPending - 1
  /\ \E i \in 1..Len(brandClosures) :
       /\ brandSettled' = Append(brandSettled, [resp |-> r, projects |-> brandClosures[i]])
       /\ brandClosures' = [j \in 1..(Len(brandClosures) - 1) |->
                              IF j < i THEN brandClosures[j] ELSE brandClosures[j + 1]]
  /\ UNCHANGED <<editor, refs, pointer, clock, app, chat, logoReqs, chatReqs, hist, store,
                 beyond>>

\* the two outcomes of a request: the whole bundle (ok), or no text at all
brandProviderSettles(ok) == brandProviderAnswers(IF ok THEN Complete ELSE NoText)

\* a continuation whose catch block puts back the list the call closed over
createProjectResumeRestores ==
  /\ brandSettled # <<>>
  /\ IF Creates(Head(brandSettled).resp)
     THEN /\ projects' = <<NewProject>> \o Head(brandSettled).projects
          /\ selectedProject' = NewProject
          /\ view' = "editor"
          /\ IF EditorMounted
             THEN UNCHANGED <<data, rendered>>
             ELSE data' = SeedData /\ rendered' = Snapshot(SeedData, Null, FALSE)
     ELSE /\ projects' = Head(brandSettled).projects
          /\ UNCHANGED <<selectedProject, view, data, rendered>>
  /\ notice' = IF Creates(Head(brandSettled).resp) THEN notice ELSE BrandAlert
  /\ isGenerating' = FALSE
  /\ brandSettled' = Tail(brandSettled)
  /\ UNCHANGED <<selectedElementId, isGeneratingLogo, refs, pointer, clock, appRendered, form,
                 chat, logoReqs, brandPending, brandClosures, chatReqs, gestures, blocked,
                 projectsRendered, bf_projects, beyond>>

\* createProject after its await: try / catch / finally.  The new project is
\* put in front of the list the call closed over and is the one the next
\* editor opens; a mounted editor keeps its state
createProjectResume ==
  /\ brandSettled # <<>>
  /\ IF Creates(Head(brandSettled).resp)
     THEN /\ projects' = <<NewProject>> \o Head(brandSettled).projects
          /\ selectedProject' = NewProject
          /\ view' = "editor"
          /\ IF EditorMounted
             THEN UNCHANGED <<data, rendered>>
             ELSE data' = SeedData /\ rendered' = Snapshot(SeedData, Null, FALSE)
     ELSE UNCHANGED <<projects, selectedProject, view, data, rendered>>
  /\ notice' = IF Creates(Head(brandSettled).resp) THEN notice ELSE BrandAlert
  /\ isGenerating' = FALSE
  /\ brandSettled' = Tail(brandSettled)
  /\ UNCHANGED <<selectedElementId, isGeneratingLogo, refs, pointer, clock, appRendered, form,
                 chat, logoReqs, brandPending, brandClosures, chatReqs, gestures, blocked,
                 projectsRendered, bf_projects, beyond>>

\* App re-renders with the queued updates; a new view mounts its own ChatWidget
AppRender ==
  /\ appRendered # AppSnapshot(view, isGenerating) \/ projectsRendered # projects
  /\ appRendered' = AppSnapshot(view, isGenerating)
  /\ projectsRendered' = projects
  /\ IF projectsRendered # projects THEN SaveEffect(projects) ELSE UNCHANGED bf_projects
  /\ IF appRendered.view # view
     THEN RemountChat
     ELSE UNCHANGED <<chat, chatReqs>>
  /\ UNCHANGED <<editor, refs, pointer, clock, view, isGenerating, form, logoReqs, brandReqs,
                 hist, projects, selectedProject, beyond>>

\* ------------------------------------------------- project list handlers
\* deleteProject from a card of the dashboard; confirmed is the answer to confirm()
deleteProject(id, confirmed) ==
  /\ appRendered.view = "dashboard"
  /\ id \in ProjectIds(projectsRendered)
  /\ IF confirmed
     THEN setProjects(SelectSeq(projectsRendered, LAMBDA p : p.id # id))
     ELSE UNCHANGED <<projects, projectsRendered, bf_projects>>
  /\ UNCHANGED <<editor, refs, pointer, clock, app, chat, logoReqs, brandReqs, chatReqs, hist,
                 selectedProject, beyond>>

\* onRename from a card of the dashboard, called when the prompt returned a name
onRename(id, name) ==
  /\ appRendered.view = "dashboard"
  /\ id \in ProjectIds(projectsRendered)
  /\ setProjects([i \in 1..Len(projectsRendered) |->
                    IF projectsRendered[i].id = id
                    THEN [projectsRendered[i] EXCEPT !.name = name]
                    ELSE projectsRendered[i]])
  /\ UNCHANGED <<editor, refs, pointer, clock, app, chat, logoReqs, brandReqs, chatReqs, hist,
                 selectedProject, beyond>>

\* updateProject, called by the sync effect of the editor when its data g is
\* not the generatedData of the project it was given
updateProject(g) ==
  /\ EditorMounted
  /\ selectedProject # NoProject
  /\ g # selectedProject.generatedData
  /\ LET updated == [selectedProject EXCEPT !.generatedData = g] IN
       /\ setProjects([i \in 1..Len(projectsRendered) |->
                         IF projectsRendered[i].id = updated.id THEN updated
                         ELSE projectsRendered[i]])
       /\ selectedProject' = updated
  /\ UNCHANGED <<editor, refs, pointer, clock, app, chat, logoReqs, brandReqs, chatReqs, hist,
                 beyond>>

\* updateProject as the editor calls it (onUpdate)
onUpdate(updated) ==
  /\ setProjects([i \in 1..Len(projectsRendered) |->
                    IF projectsRendered[i].id = updated.id THEN updated
                    ELSE projectsRendered[i]])
  /\ selectedProject' = updated

\* every effect of the last render of ProjectEditor has run: React runs the
\* pending effects before it handles a click, a key or a change
EffectsRun == rendered.data = effectDeps

\* the effect of ProjectEditor on [data], run once after every render that saw
\* new data: onUpdate({...project, generatedData: data}) when the data is not
\* the generatedData of the project the editor was given
syncEffect ==
  /\ EditorMounted
  /\ ~EffectsRun
  /\ effectDeps' = rendered.data
  /\ IF rendered.data # selectedProject.generatedData
     THEN onUpdate([selectedProject EXCEPT !.generatedData = rendered.data])
     ELSE UNCHANGED store
  /\ UNCHANGED <<editor, refs, pointer, clock, app, chat, logoReqs, brandReqs, chatReqs, hist,
                 crashed, doc>>

\* Select button of a brand name other than the project's:
\* onUpdate({...project, name: nObj.name})
selectName(n) ==
  /\ EditorMounted
  /\ ptr = "up"
  /\ n # selectedProject.name
  /\ onUpdate([selectedProject EXCEPT !.name = n])
  /\ UNCHANGED <<editor, refs, pointer, clock, app, chat, logoReqs, brandReqs, chatReqs, hist,
                 beyond>>

\* ------------------------------------------------------------------- chat
\* handleInput: b says whether the draft now has non-blank text
typeInput(b) ==
  /\ input' = b
  /\ UNCHANGED <<editor, refs, pointer, clock, app, isLoading, chatRendered, messages,
                 bf_chat_session, logoReqs,
                 brandReqs, chatReqs, hist, store, beyond>>

\* the entries of a transcript: the message of the user, the text of the
\* provider, the stock phrase that replaces an empty text, the fallback
UserEntry     == "user"
ReplyEntry    == "reply"
StockEntry    == "I'm here to help."
FallbackEntry == "Sorry, I can't connect right now."

\* how getChatResponse can settle: with a text, with an empty text, rejected
ChatOutcomes ==
  {[ok |-> TRUE, text |-> ReplyEntry], [ok |-> TRUE, text |-> ""], [ok |-> FALSE, text |-> ""]}

Count(seq, e) == Cardinality({i \in 1..Len(seq) : seq[i] = e})

\* the save effect of ChatWidget, run after a render that saw a new
\* transcript: an empty transcript is not written
SaveChat(list) == bf_chat_session' = IF Len(list) > 0 THEN list ELSE bf_chat_session

\* sendMessage up to its await, from the Enter key (viaKey) or from the send
\* button, which is disabled while the rendered isLoading is true
sendMessage(viaKey) ==
  /\ viaKey \/ ~chatRendered
  /\ IF ~input
     THEN UNCHANGED <<chat, chatPending>>
     ELSE /\ Outstanding < MaxReq
          /\ Count(messages, UserEntry) < MaxSends
          /\ messages' = Append(messages, UserEntry)
          /\ SaveChat(messages')
          /\ input' = FALSE
          /\ isLoading' = TRUE
          /\ chatRendered' = TRUE
          /\ chatPending' = chatPending + 1
  /\ UNCHANGED <<editor, refs, pointer, clock, app, logoReqs, brandReqs, chatSettled, hist,
                 store, beyond>>

\* getChatResponse settles with the outcome o
chatProviderAnswers(o) ==
  /\ chatPending > 0
  /\ chatPending' = chatPending - 1
  /\ chatSettled' = Append(chatSettled, o)
  /\ UNCHANGED <<editor, refs, pointer, clock, app, chat, logoReqs, brandReqs, hist, store,
                 beyond>>

\* the two outcomes of a request: a text (ok), or a rejection
chatProviderSettles(ok) == chatProviderAnswers([ok |-> ok, text |-> IF ok THEN ReplyEntry ELSE ""])

\* the entry the continuation appends: response || "I'm here to help." in the
\* try block, the fallback in the catch block
AdvisorEntry(o) ==
  IF o.ok THEN (IF o.text # "" THEN o.text ELSE StockEntry) ELSE FallbackEntry

\* sendMessage after its await: try / catch / finally
sendMessageResume ==
  /\ chatSettled # <<>>
  /\ messages' = Append(messages, AdvisorEntry(Head(chatSettled)))
  /\ isLoading' = FALSE
  /\ chatSettled' = Tail(chatSettled)
  /\ UNCHANGED <<editor, refs, pointer, clock, app, chatRendered, input, bf_chat_session,
                 logoReqs, brandReqs, chatPending, hist, store, beyond>>

\* ChatWidget re-renders with the queued updates and its save effect runs
ChatRender ==
  /\ chatRendered # isLoading \/ (messages # <<>> /\ bf_chat_session # messages)
  /\ chatRendered' = isLoading
  /\ SaveChat(messages)
  /\ UNCHANGED <<editor, refs, pointer, clock, app, isLoading, input, messages, logoReqs,
                 brandReqs, chatReqs, hist, store, beyond>>

\* ------------------------------------------- specification: canvas session
\* one editor session on the canvas: presses, moves, releases, and the
\* buttons that add, delete and deselect layers
Next ==
  \/ Render
  \/ \E id \in 0..MaxClock, p \in PressPositions : handleMouseDown(id, p)
  \/ PressBackground
  \/ \E p \in PtrPositions : handleMouseMove(p)
  \/ handleMouseUp
  \/ canvasClick
  \/ handleMouseLeave
  \/ ReleaseOutside
  \/ ReEnter
  \/ \E t \in 1..MaxClock : addTextElement(t)
  \/ deleteSelectedText
  \/ closeTextEditor

Spec == Init /\ [][Next]_vars

\* ------------------------------------------------ canvas session: claims
\* the text layers of the design, and those the selection matches
textElements == data.logoSettings.textElements

SelectedLayers == {i \in 1..Len(textElements) : textElements[i].id = selectedElementId}

\* C1: while a text layer is dragged, the last pointer position is the position
\* of the last move, and when every move of the drag was handled against the
\* up-to-date layer model the layer is at its position at pointer-down plus
\* the sum of the pointer deltas
C1_DragAccumulates ==
  isDragging =>
    /\ dragStart = ptrPos
    /\ dragFresh =>
         PosOf(textElements, selectedElementId)
           = <<dragFrom[1] + dragSum[1], dragFrom[2] + dragSum[2]>>

\* deltas (3,0), (0,4), (-1,-1) were applied to the layer that was at (100,100)
C1_Witness ==
  /\ isDragging
  /\ dragFresh
  /\ dragged
  /\ dragFrom = <<100, 100>>
  /\ dragSum = <<2, 3>>
  /\ ptrPos = <<12, 13>>
  /\ PosOf(textElements, selectedElementId) = <<102, 103>>

\* C2: from Idle, a complete click on a text layer (pointer-down, pointer-up
\* and the click event, with every handler they reach) ends with that layer
\* selected and no drag in progress
C2_ClickSelects ==
  [][(pressed # Null /\ wasIdle /\ ~dragged /\ ptr = "click" /\ ptr' = "up")
       => (selectedElementId' = pressed /\ ~isDragging')]_vars

\* C3: when every handler triggered by the release that ends a drag (pointer-up
\* and its click, or the pointer leaving the canvas) has run, dragging is off
\* and the dragged layer is still the selected layer
C3_ReleaseKeepsSelection ==
  [][(pressed # Null /\ pressed' = Null)
       => (selectedElementId' = pressed /\ ~isDragging')]_vars

\* C4: a pointer-down on a text layer, from Idle or from Selected, sets the
\* drag flag, makes the pointer-down position the last pointer position and
\* selects the layer; at no time is more than one layer being dragged
C4_PointerDownDrags ==
  [][/\ (ptr = "up" /\ pressed' # Null)
          => (isDragging' /\ dragStart' = ptrPos' /\ selectedElementId' = pressed')
     /\ isDragging' => Cardinality(SelectedLayers') <= 1]_vars

\* C5: at most one text layer is selected; a pointer-down on a layer makes it
\* the only selected layer; a click on the empty background leaves none selected
C5_SingleSelection ==
  [][/\ Cardinality(SelectedLayers') <= 1
     /\ (ptr = "up" /\ pressed' # Null) => selectedElementId' = pressed'
     /\ (pressed = Null /\ ptr = "click" /\ ptr' = "up") => SelectedLayers' = {}]_vars

\* updates a caller may address to a layer
TextUpdates == {[x |-> 1, y |-> 2], [text |-> "Acme", rotation |-> 90]}

\* C6: an update addressed to an id that no layer of the collection has
\* changes no text layer (and its evaluation raises no error)
C6_UnknownIdNoOp ==
  \A id \in 0..MaxClock, updates \in TextUpdates :
    id \notin Ids(textElements) => MapUpdate(textElements, id, updates) = textElements

\* the stored layer 0 was selected and deleted, and another layer exists
C6_Witness ==
  /\ 0 \notin Ids(textElements)
  /\ Len(textElements) >= 1
  /\ selectedElementId = Null

\* --------------------------------------- specification: icon generation
\* composer edits (drag, panel field, add and delete of a layer) while icon
\* requests are started, settle and resume, in one editor session
GenNext ==
  \/ Render
  \/ handleGenerateLogo
  \/ \E url \in 0..MaxUrl : logoProviderSettles(url)
  \/ handleGenerateLogoResume
  \/ \E c \in BgColors : setBgColor(c)
  \/ \E a \in Aligns : setAlign(a)
  \/ \E id \in 0..MaxClock, p \in PressPositions : handleMouseDown(id, p)
  \/ \E p \in PtrPositions : handleMouseMove(p)
  \/ handleMouseUp
  \/ canvasClick
  \/ \E t \in 1..MaxClock : addTextElement(t)
  \/ deleteSelectedText

GenSpec == Init /\ [][GenNext]_vars

\* the step is the continuation of a request that returned an image
IconArrives ==
  /\ logoSettled # <<>>
  /\ logoSettled' = Tail(logoSettled)
  /\ Head(logoSettled) # 0

\* C8: a successful icon generation sets the icon to the returned image and
\* keeps every other field, and no other step (composer edit, re-render,
\* failed generation) changes the icon
C8_IconKept ==
  [][IF IconArrives
     THEN data' = [data EXCEPT !.logoIconUrl = Head(logoSettled)]
     ELSE data'.logoIconUrl = data.logoIconUrl]_vars

\* ------------------------------- specification: generation and navigation
\* icon requests while the editor is left for the dashboard and opened again
NavNext ==
  \/ Render
  \/ handleGenerateLogo
  \/ \E url \in 0..MaxUrl : logoProviderSettles(url)
  \/ handleGenerateLogoResume
  \/ \E url \in IconOutcomes : orphanSettles(url)
  \/ onBack
  \/ onSelect
  \/ handleNewProject
  \/ backFromNew
  \/ \E v \in Prompts : setLogoPrompt(v)
  \/ \E c \in BgColors : setBgColor(c)

NavSpec == Init /\ [][NavNext]_vars

\* C9: no icon-generation request is issued while another one is outstanding
C9_NoOverlap == logoPending + orphanPending <= 1

\* ------------------------------------------ specification: container panel
\* the controls of the container panel, with icon generation beside them
ContainerNext ==
  \/ Render
  \/ \E s \in Shapes : setShape(s)
  \/ \E w \in SliderSizes : setWidth(w)
  \/ \E h \in SliderSizes : setHeight(h)
  \/ \E c \in BgColors : setBgColor(c)
  \/ handleGenerateLogo
  \/ \E url \in IconOutcomes : logoProviderSettles(url)
  \/ handleGenerateLogoResume

ContainerSpec == Init /\ [][ContainerNext]_vars

\* the size the spec gives a shape
ShapeSize(s) ==
  IF s \in {"rectangle", "oval"} THEN <<WideWidth, WideHeight>>
  ELSE <<DefaultWidth, DefaultHeight>>

\* the container a record of the design holds
ContainerOf(d) == <<d.logoSettings.shape, <<d.logoSettings.width, d.logoSettings.height>>>>

\* C7: from the choice of a shape until a size slider is moved, the stored
\* and the rendered design hold that shape with the size of that shape
\* (500x300 for rectangle and oval, 400x400 for the other six)
C7_ShapeSetsSize ==
  chosen # "" =>
    /\ ContainerOf(data) = <<chosen, ShapeSize(chosen)>>
    /\ ContainerOf(rendered.data) = <<chosen, ShapeSize(chosen)>>

\* oval was chosen for a container with a white background, and an icon has
\* arrived since that is not rendered yet
C7_Witness ==
  /\ chosen = "oval"
  /\ ContainerOf(data) = <<"oval", <<WideWidth, WideHeight>>>>
  /\ data.logoSettings.bgColor = "#ffffff"
  /\ data.logoIconUrl # rendered.data.logoIconUrl

\* ------------------------------------------ specification: the requests
\* the three provider requests with the navigation between the views (a New
\* Brand Project view is left only by a generation that succeeds, and the
\* user writes to the advisor on the dashboard, the first message of the
\* session).  A settled promise runs its continuation and React renders a
\* queued update: these steps are not postponed forever
LiveNext ==
  \/ Render
  \/ handleGenerateLogo
  \/ \E url \in IconOutcomes : logoProviderSettles(url)
  \/ handleGenerateLogoResume
  \/ \E url \in IconOutcomes : orphanSettles(url)
  \/ onBack
  \/ onSelect
  \/ handleNewProject
  \/ setForm(TRUE)
  \/ createProject
  \/ \E ok \in BOOLEAN : brandProviderSettles(ok)
  \/ createProjectResume
  \/ AppRender
  \/ appRendered.view = "dashboard" /\ messages = <<>> /\ typeInput(TRUE)
  \/ \E viaKey \in BOOLEAN : sendMessage(viaKey)
  \/ \E ok \in BOOLEAN : chatProviderSettles(ok)
  \/ sendMessageResume
  \/ ChatRender

LiveSpec ==
  /\ Init
  /\ [][LiveNext]_vars
  /\ WF_vars(handleGenerateLogoResume)
  /\ WF_vars(createProjectResume)
  /\ WF_vars(sendMessageResume)
  /\ WF_vars(Render)
  /\ WF_vars(AppRender)
  /\ WF_vars(ChatRender)

\* C10: each in-flight flag (icon generation, brand generation, chat reply)
\* that is set when no request of its kind is in flight any more is cleared
\* later, in the state and in what the user is shown, whether the request
\* succeeded or failed, unless a new request of its kind is started first
C10_FlagsCleared ==
  /\ (isGeneratingLogo /\ logoPending = 0) ~> (~isGeneratingLogo \/ logoPending > 0)
  /\ (rendered.isGeneratingLogo /\ logoPending = 0)
       ~> (~rendered.isGeneratingLogo \/ logoPending > 0)
  /\ (isGenerating /\ brandPending = 0) ~> (~isGenerating \/ brandPending > 0)
  /\ (appRendered.isGenerating /\ brandPending = 0)
       ~> (~appRendered.isGenerating \/ brandPending > 0)
  /\ (isLoading /\ chatPending = 0) ~> (~isLoading \/ chatPending > 0)
  /\ (chatRendered /\ chatPending = 0) ~> (~chatRendered \/ chatPending > 0)

\* an icon request was rejected and its continuation has cleared the flag,
\* which the Generate button still shows
C10_Witness ==
  /\ EditorMounted
  /\ data.logoIconUrl = 0
  /\ logoPending = 0
  /\ logoSettled = <<>>
  /\ ~isGeneratingLogo
  /\ rendered.isGeneratingLogo

\* -------------------------------- specification: opening a stored project
\* what data.visuals.logoSettings of a stored project can be: nothing, a
\* record of the previous schema, a record of the current one
StoredSettings == {NoSettings, PreviousLogoSettings, SeedLogoSettings}

\* the dashboard, with a stored project of any of these shapes
OpenInit ==
  \E s \in StoredSettings :
    Start([SeedData EXCEPT !.logoSettings = s], "dashboard", NoProject)

OpenNext ==
  \/ onSelect
  \/ onBack
  \/ \E s \in Shapes : setShape(s)
  \/ \E w \in SliderSizes : setWidth(w)
  \/ \E c \in BgColors : setBgColor(c)
  \/ \E t \in 1..MaxClock : addTextElement(t)
  \/ \E a \in Aligns : setAlign(a)
  \/ deleteSelectedText
  \/ closeTextEditor

OpenSpec == OpenInit /\ [][OpenNext]_vars

\* C11: opening the editor on a stored project never crashes, whatever its
\* logoSettings is: absent, of the previous schema (no textElements, shape,
\* width, height) or current; the editor is shown and works on a record in
\* which every missing field has its seeding default.
C11_OpenNeverCrashes ==
  /\ ~crashed
  /\ EditorMounted => DOMAIN logoSettings = DOMAIN DefaultLogoSettings

\* ------------------------------------ specification: the project list
\* the dashboard, the New Brand Project view and the editor, with every
\* handler that changes the project list
StoreNext ==
  \/ onBack
  \/ onSelect
  \/ \E id \in 1..MaxProjects, confirmed \in BOOLEAN : deleteProject(id, confirmed)
  \/ \E id \in 1..MaxProjects, name \in Names : onRename(id, name)
  \/ \E g \in GeneratedVersions : updateProject(g)
  \/ handleNewProject
  \/ setForm(TRUE)
  \/ createProject
  \/ \E ok \in BOOLEAN : brandProviderSettles(ok)
  \/ createProjectResume
  \/ AppRender

StoreSpec == Init /\ [][StoreNext]_vars

\* C12: once a change of the project list has settled (App has rendered with
\* the list and its save effect has run), the list in the Project Store is
\* the list in memory, also after the only remaining project was deleted.
C12_StoreEqualsMemory == (projectsRendered = projects) => (bf_projects = projects)

\* ------------------------------------ specification: the text editor panel
\* layers are added, selected by a press released outside the canvas, edited
\* with the sliders of the panel, deselected and deleted
PanelNext ==
  \/ \E t \in 1..MaxClock : addTextElement(t)
  \/ \E id \in 0..MaxClock, p \in PressPositions : handleMouseDown(id, p)
  \/ handleMouseLeave
  \/ ReleaseOutside
  \/ \E v \in SliderRequests : setSpacing(v)
  \/ \E v \in SliderRequests : setRotation(v)
  \/ closeTextEditor
  \/ deleteSelectedText

PanelSpec == Init /\ [][PanelNext]_vars

\* C13: no design holds a letter spacing below -5, and a Spacing request at
\* or below -5 (-6, -5) stores -5 in the layer it edits.
C13_SpacingFloor ==
  /\ [](\A i \in 1..Len(textElements) : textElements[i].spacing >= SpacingMin)
  /\ [][\A v \in SliderRequests :
          (v <= SpacingMin /\ setSpacing(v)) =>
             data'.logoSettings.textElements[activeTextElement].spacing = SpacingMin]_vars

\* the Spacing slider was asked for -6 and a layer holds -5
C13_Witness ==
  /\ asked = <<"spacing", -6>>
  /\ \E i \in 1..Len(textElements) : textElements[i].spacing = SpacingMin

\* C14: every rotation is an integer in 0..360, and a Rotation request outside
\* 0..360 is stored wrapped into it (370 as 10, -6 as 354).
C14_RotationWraps ==
  /\ [](\A i \in 1..Len(textElements) : textElements[i].rotation \in RotationMin..RotationMax)
  /\ [][\A v \in SliderRequests :
          setRotation(v) =>
             data'.logoSettings.textElements[activeTextElement].rotation =
               IF v \in RotationMin..RotationMax THEN v ELSE v % RotationMax]_vars

\* ---------------------------------------- specification: document export
\* the editor is open on a stored project with one text layer, with or
\* without an icon
ExportInit ==
  \E u \in IconOutcomes :
    Start([SeedData EXCEPT !.logoIconUrl = u, !.logoSettings.textElements = StoredLayers],
          "editor", StoredProjects[1])

ExportNext ==
  \/ \E project \in ExportInputs : exportToPDF(project)
  \/ exportCover
  \/ exportAddPage
  \/ exportGap
  \/ \E n \in LineCounts : addText(n)
  \/ exportPalette
  \/ exportSave

ExportSpec == ExportInit /\ [][ExportNext]_vars

\* C15: addText starts a new page and places the block at the top margin 20
\* exactly when cursor + block height (lines x size x 0.4) exceeds 280,
\* places it at the cursor on the current page otherwise, and leaves the
\* cursor at the placement plus the block height plus 6.
C15_PageBreak ==
  [][\A n \in LineCounts :
       addText(n) =>
         LET h == n * ExportScript[doc.pc].size * 2 IN
           /\ doc.y + h > Bottom  => doc'.block = <<doc.pages + 1, Margin, h>>
           /\ doc.y + h <= Bottom => doc'.block = <<doc.pages, doc.y, h>>
           /\ doc'.pages = doc'.block[1]
           /\ doc'.y = doc'.block[2] + h + Gap]_vars

\* a block was placed at the top margin of a page that addText started, and
\* the export was saved
C15_Witness ==
  /\ doc.result = "saved"
  /\ doc.block[2] = Margin
  /\ doc.pages > 3

\* C16: a saved document shows every text layer of the design snapshot of the
\* exported project (each at its position and with its rotation, inside the
\* container), as the live preview does.
C16_ExportShowsLayers ==
  doc.result = "saved" => doc.layers = rendered.data.logoSettings.textElements

\* C17: an export of a project that has its generated data and palette is
\* never aborted by the icon: with the icon absent or not decodable the run
\* goes on and saves a document of at least three pages (cover, strategy,
\* visual identity), in which only the icon is missing.
C17_IconNeverAborts ==
  doc.project = "full" =>
    /\ doc.result \in {"none", "saved"}
    /\ doc.result = "saved" => (doc.pages >= 3 /\ doc.icon \in {"none", "drawn", "skipped"})

\* the icon could not be decoded: it was skipped and logged, and the document
\* was saved
C17_Witness ==
  /\ doc.result = "saved"
  /\ doc.icon = "skipped"
  /\ doc.logged
  /\ doc.pages >= 3

\* C18: no export returns without a file and without a logged failure, and
\* none stops with an unhandled exception, whatever project it is given.
C18_SavedOrLogged == doc.result \notin {"returned", "threw"}

\* C19: Add Text puts the new layer after all layers of the design, changes
\* none of them, and places the new layer at (width / 2, height / 2 + 80) of
\* the container as it is when the button is pressed.
C19_AddAppends ==
  [][\A t \in 1..MaxClock :
       addTextElement(t) =>
         textElements' =
           Append(textElements,
                  TextLayer(t, data.logoSettings.width \div 2,
                            data.logoSettings.height \div 2 + TextYOffset))]_vars

\* C20: the ids of the text layers of a design are pairwise distinct, also
\* for two layers added at the same clock value and after a deletion.
C20_IdsDistinct ==
  \A i, j \in 1..Len(textElements) : textElements[i].id = textElements[j].id => i = j

\* ------------------------------------- specification: the layer collection
\* one editor session in which layers are added, pressed, dragged until the
\* pointer leaves the canvas, edited in the text editor panel and deleted
LayerNext ==
  \/ Render
  \/ \E id \in 0..MaxClock, p \in PressPositions : handleMouseDown(id, p)
  \/ \E p \in PtrPositions : handleMouseMove(p)
  \/ handleMouseLeave
  \/ ReleaseOutside
  \/ \E t \in 1..MaxClock : addTextElement(t)
  \/ setAlign("left")
  \/ deleteSelectedText

LayerSpec == Init /\ [][LayerNext]_vars

\* the ids of a layer list, in paint order
IdSeq(elements) == [i \in 1..Len(elements) |-> elements[i].id]

SettingsOf(d) == [k \in DOMAIN d.logoSettings \ {"textElements"} |-> d.logoSettings[k]]

\* C22: Delete removes exactly one layer, the one with the selected id, leaves
\* every other layer and the container and icon settings as they are, and
\* clears the selection.
C22_DeleteExact ==
  [][deleteSelectedText =>
       /\ Len(textElements') = Len(textElements) - 1
       /\ textElements' = SelectSeq(textElements, LAMBDA el : el.id # selectedElementId)
       /\ SettingsOf(data') = SettingsOf(data)
       /\ selectedElementId' = Null]_vars

\* C23: a pointer-down on a layer, a click that reaches the canvas and the X
\* button of the text editor panel change the selection and the drag state
\* only: the design (container, icon settings, every text layer) is the same
\* after them, in the state and in what is rendered.
C23_SelectionKeepsModel ==
  [][((\E id \in 0..MaxClock, p \in PressPositions : handleMouseDown(id, p))
        \/ canvasClick \/ closeTextEditor)
       => /\ data' = data
          /\ rendered'.data = rendered.data
          /\ isGeneratingLogo' = isGeneratingLogo]_vars

\* layer 0 was pressed while the layer added after it was the selected one:
\* the selection went from one layer to the other and both layers are there
C23_Witness ==
  /\ pressed = 0
  /\ ~wasIdle
  /\ isDragging
  /\ selectedElementId = 0
  /\ Len(textElements) = 2

\* ------------------------------ specification: container and icon styling
\* the shape buttons, the Corner Radius slider and the tint controls of the
\* container panel, with icon generation beside them
StyleNext ==
  \/ Render
  \/ \E s \in Shapes : setShape(s)
  \/ \E v \in RadiusRequests : setBorderRadius(v)
  \/ \E b \in BOOLEAN : setTintIcon(b)
  \/ \E c \in IconColors : setIconColor(c)
  \/ handleGenerateLogo
  \/ \E url \in IconOutcomes : logoProviderSettles(url)
  \/ handleGenerateLogoResume

StyleSpec == Init /\ [][StyleNext]_vars

\* C24: the container of every render resolves by the table: circle and oval
\* to a border radius of 50%, rounded to 40px, square and rectangle to 0, none
\* to the stored cornerRadius; triangle and hexagon to their polygons, every
\* other shape to no clip path.
C24_ShapeTable ==
  LET s  == logoSettings
      st == ContainerStyle(s)
  IN  /\ s.shape \in {"circle", "oval"} => st.borderRadius = <<50, "%">>
      /\ s.shape = "rounded" => st.borderRadius = <<40, "px">>
      /\ s.shape \in {"square", "rectangle"} => st.borderRadius = <<0, "px">>
      /\ s.shape = "none" => st.borderRadius = <<s.borderRadius, "px">>
      /\ s.shape = "triangle" => st.clipPath = <<<<50, 0>>, <<0, 100>>, <<100, 100>>>>
      /\ s.shape = "hexagon" =>
           st.clipPath = <<<<25, 0>>, <<75, 0>>, <<100, 50>>, <<75, 100>>, <<25, 100>>, <<0, 50>>>>
      /\ s.shape \notin {"triangle", "hexagon"} => st.clipPath = <<>>

\* a container of shape none that kept the corner radius 200 it got while it
\* was rounded
C24_Witness ==
  /\ logoSettings.shape = "none"
  /\ logoSettings.borderRadius = RadiusMax
  /\ ContainerStyle(logoSettings).borderRadius = <<RadiusMax, "px">>

\* C25: two containers that differ only in cornerRadius render differently
\* when the shape is rounded and the same for every other shape.
C25_RadiusOnlyRounded ==
  \A r1, r2 \in RadiusMin..RadiusMax :
    r1 # r2 =>
      LET a == ContainerStyle([logoSettings EXCEPT !.borderRadius = r1])
          b == ContainerStyle([logoSettings EXCEPT !.borderRadius = r2])
      IN  IF logoSettings.shape = "rounded" THEN a # b ELSE a = b

\* C26: a Tint Icon toggle changes the tintIcon field of the design and no
\* other; with an image, the render after a toggle to false is the untinted
\* one (the image unmodified, no mask) and the render after a toggle to true
\* is the silhouette of the current image in the current tint colour.
C26_TintRoundTrip ==
  [][\A b \in BOOLEAN :
       setTintIcon(b) =>
         /\ data' = [data EXCEPT !.logoSettings.tintIcon = b]
         /\ data'.logoIconUrl # 0 =>
              IconRender(rendered'.data) =
                IF b
                THEN [img  |-> <<data.logoIconUrl, "grayscale(100%) brightness(0)", 0>>,
                      mask |-> <<data.logoSettings.iconColor, data.logoIconUrl>>]
                ELSE [img |-> <<data.logoIconUrl, "none", 1>>, mask |-> <<>>]]_vars

\* ------------------------------------ specification: requests that fail
\* icon and brand requests that are answered or rejected while the user
\* edits the design, renames projects and moves between the views
FailNext ==
  \/ Render
  \/ handleGenerateLogo
  \/ \E url \in IconOutcomes : logoProviderSettles(url)
  \/ handleGenerateLogoResume
  \/ \E url \in IconOutcomes : orphanSettles(url)
  \/ setBgColor("#ffffff")
  \/ onBack
  \/ handleNewProject
  \/ backFromNew
  \/ setForm(TRUE)
  \/ createProject
  \/ \E ok \in BOOLEAN : brandProviderSettles(ok)
  \/ createProjectResume
  \/ AppRender
  \/ onRename(1, "Nova")

FailSpec == Init /\ [][FailNext]_vars

\* the step is the continuation of an icon request that was rejected
LogoFails == logoSettled # <<>> /\ Head(logoSettled) = 0 /\ handleGenerateLogoResume

\* the step is the continuation of a brand request that was rejected
BrandFails == brandSettled # <<>> /\ ~Creates(Head(brandSettled).resp) /\ createProjectResume

\* what a failed request must leave alone: the design, the selection, the
\* project list in memory and in the store, the selected project, the view
Kept == <<data, selectedElementId, projects, bf_projects, selectedProject, view>>

\* C27: no step of a request that fails (its start, the rejection, its
\* continuation) changes the design or the project list, so both are what the
\* other steps made them; the continuation shows the alert of its kind and
\* clears the in-flight flag of its kind.
C27_FailureKeepsState ==
  [][/\ LogoFails => (UNCHANGED Kept /\ notice' = LogoAlert /\ ~isGeneratingLogo'
                       /\ isGenerating' = isGenerating)
     /\ BrandFails => (UNCHANGED Kept /\ notice' = BrandAlert /\ ~isGenerating'
                        /\ isGeneratingLogo' = isGeneratingLogo)
     /\ (handleGenerateLogo \/ createProject
           \/ logoProviderSettles(0) \/ brandProviderSettles(FALSE)) => UNCHANGED Kept]_vars

\* a brand request was rejected after the project was renamed, and an icon
\* request after the background was changed: both edits are there
C27_Witness ==
  /\ notice = BrandAlert
  /\ ~isGenerating
  /\ brandPending = 0 /\ brandSettled = <<>>
  /\ Len(projects) = 1 /\ projects[1].name = "Nova"
  /\ data.logoSettings.bgColor = "#ffffff"
  /\ data.logoIconUrl = 0
  /\ ~isGeneratingLogo

\* the step is a call of createProject while industry or description is empty
EmptyStart == appRendered.view = "new" /\ ~form /\ createProject

\* C28: a call of createProject with an empty industry or an empty description
\* sends no request to the provider and changes neither the project list (in
\* memory and in the store), the view, the selected project nor isGenerating.
C28_EmptyFormBlocks ==
  [][EmptyStart => UNCHANGED <<brandReqs, projects, bf_projects, view, selectedProject,
                               isGenerating, notice>>]_vars

\* Generate was pressed on an emptied form while an earlier request was still
\* in flight: that request and its flag are as they were
C28_Witness ==
  /\ blocked
  /\ view = "new"
  /\ ~form
  /\ isGenerating
  /\ brandPending = 1
  /\ brandSettled = <<>>

\* --------------------------------- specification: the provider's responses
\* projects are generated from every kind of response the provider can give
BrandNext ==
  \/ onBack
  \/ handleNewProject
  \/ backFromNew
  \/ \E b \in BOOLEAN : setForm(b)
  \/ createProject
  \/ \E r \in Responses : brandProviderAnswers(r)
  \/ createProjectResume
  \/ AppRender

BrandSpec == Init /\ [][BrandNext]_vars

\* the response holds the whole bundle: names, story, marketing copy, a
\* palette of PaletteSize colours, fonts and the icon prompt
WholeBundle(r) == r.text /\ r.json /\ r.parts = Parts /\ r.colours >= PaletteSize

\* the step is the continuation of a brand request that was answered with r
ResumesOn(r) == brandSettled # <<>> /\ Head(brandSettled).resp = r /\ createProjectResume

\* C29: a brand request answered with an empty response or with one that
\* lacks a part of the bundle creates no project and opens no editor, and the
\* user is shown the alert.
C29_MalformedRejects ==
  [][\A r \in Responses :
       (ResumesOn(r) /\ ~WholeBundle(r)) =>
         /\ UNCHANGED <<projects, selectedProject, view>>
         /\ notice' = BrandAlert]_vars

\* ------------------------------------------- specification: the advisor
\* the user writes to the advisor and moves between the views while the
\* provider answers, answers with an empty text, or fails
ChatNext ==
  \/ \E b \in BOOLEAN : typeInput(b)
  \/ \E viaKey \in BOOLEAN : sendMessage(viaKey)
  \/ \E o \in ChatOutcomes : chatProviderAnswers(o)
  \/ sendMessageResume
  \/ ChatRender
  \/ onBack
  \/ handleNewProject
  \/ backFromNew

ChatSpec == Init /\ [][ChatNext]_vars

\* C30: once no chat request is in flight, the transcript, shown and stored,
\* holds one advisor entry for every message of the user, each of them the
\* reply of the provider or the fallback string.
C30_OneAdvisorEntryEach ==
  (chatPending = 0 /\ chatSettled = <<>> /\ ~isLoading) =>
    /\ Count(messages, ReplyEntry) + Count(messages, FallbackEntry)
         = Count(messages, UserEntry)
    /\ \A i \in 1..Len(messages) : messages[i] \in {UserEntry, ReplyEntry, FallbackEntry}

\* ------------------------------------------------ claims about concurrency
\* C31: every pointer-move of a drag adds its delta to the position the selected
\* layer has at that moment, whether or not the component has re-rendered
\* since the move before it; so after any number of moves and re-renders the
\* layer is at its start position plus the sum of the deltas.
C31_NoDeltaLost ==
  [][\A p \in PtrPositions :
       (/\ isDragging
        /\ rendered.selectedElementId = selectedElementId
        /\ selectedElementId \in Ids(textElements)
        /\ handleMouseMove(p))
       => PosOf(textElements', selectedElementId)
            = <<PosOf(textElements, selectedElementId)[1] + p[1] - ptrPos[1],
                PosOf(textElements, selectedElementId)[2] + p[2] - ptrPos[2]>>]_vars

\* ------------------------- specification: the editor and the project list
\* edits in the editor, its sync effect, brand-name selections, and projects
\* that are opened and generated meanwhile
SyncNext ==
  \/ Render
  \/ syncEffect
  \/ EffectsRun /\ \E p \in PressPositions : handleMouseDown(0, p)
  \/ \E p \in PtrPositions : handleMouseMove(p)
  \/ handleMouseLeave
  \/ EffectsRun /\ setBgColor("#ffffff")
  \/ EffectsRun /\ setStory("our vision")
  \/ EffectsRun /\ selectName("Nova")
  \/ EffectsRun /\ onBack
  \/ onSelect /\ selectedProject'.generatedData = data
  \/ handleNewProject
  \/ backFromNew
  \/ setForm(TRUE)
  \/ form /\ createProject
  \/ brandProviderSettles(TRUE)
  \/ createProjectResume
  \/ AppRender

SyncSpec == Init /\ [][SyncNext]_vars

\* the data of the editor was edited (it is neither that of the stored project
\* nor that of a new one), the editor shows it and the effects of that render
\* have run
Settled ==
  /\ EditorMounted
  /\ data \notin GeneratedVersions
  /\ rendered.data = data
  /\ EffectsRun

\* C32: once the editor has rendered its edited data and its effect has run,
\* the selected project, which a document export reads, carries the data of
\* the editor, and the project list holds that very record.
C32_ListCarriesEdits ==
  Settled =>
    /\ selectedProject.generatedData = data
    /\ \E i \in 1..Len(projects) : projects[i] = selectedProject

\* C33: while isGenerating is set, as the Generate Brand Identity button was
\* rendered with it, a press of the button starts no request of the provider.
C33_NoSecondRequest ==
  [][(appRendered.isGenerating /\ isGenerating /\ createProject)
       => brandPending' = brandPending]_vars

\* C34: when a brand generation completes, the project list becomes the list
\* as it stands at that moment with the new project put in front, so that a
\* project deleted or renamed while the request was in flight stays so.
C34_CompletionKeepsChanges ==
  [][(brandSettled # <<>> /\ Creates(Head(brandSettled).resp) /\ createProjectResume)
       => projects' = <<NewProject>> \o projects]_vars

\* ------------------------------------------------- claims about invariants
\* C35: the selected id is null or the id of a text layer of the collection,
\* in the state of the editor and in what its last render shows.
C35_SelectionExists ==
  /\ selectedElementId = Null \/ selectedElementId \in Ids(textElements)
  /\ rendered.selectedElementId = Null
       \/ rendered.selectedElementId \in Ids(rendered.data.logoSettings.textElements)

\* the stored layer was deleted, and the layer that was added is selected
C35_Witness ==
  /\ 0 \notin Ids(textElements)
  /\ Len(textElements) = 1
  /\ selectedElementId = textElements[1].id
  /\ rendered.selectedElementId = selectedElementId

\* the drag flag is set only while a layer is selected
DragHasSelection ==
  isDragging => (selectedElementId # Null /\ rendered.selectedElementId # Null)

\* a pointer-move keeps the layers and moves none but the selected one of a drag
MoveOnlySelected ==
  \A p \in PtrPositions :
    handleMouseMove(p) =>
      /\ Len(textElements') = Len(textElements)
      /\ \A i \in 1..Len(textElements) :
           <<textElements'[i].x, textElements'[i].y>> # <<textElements[i].x, textElements[i].y>>
             => isDragging /\ textElements[i].id = selectedElementId

\* C36: whenever the drag flag is set a layer is selected, and a pointer-move
\* changes the position of a layer only while the drag flag is set and only
\* for the selected layer.
C36_MoveNeedsDrag == []DragHasSelection /\ [][MoveOnlySelected]_vars

\* ------------------------------------------- layers and the container size
PlaceNext ==
  \/ Render
  \/ \E w \in SliderSizes : setWidth(w)
  \/ \E h \in SliderSizes : setHeight(h)
  \/ \E t \in 1..MaxClock : addTextElement(t)
  \/ \E id \in 0..MaxClock, p \in PressPositions : handleMouseDown(id, p)
  \/ \E p \in PtrPositions : handleMouseMove(p)
  \/ handleMouseUp
  \/ canvasClick

PlaceSpec == Init /\ [][PlaceNext]_vars

\* the position of layer el lies inside the container of settings s
InsideContainer(el, s) ==
  /\ 0 <= el.x /\ el.x <= s.width
  /\ 0 <= el.y /\ el.y <= s.height

\* C37: the position of every text layer lies inside the container, in the
\* stored design and in the rendered one.
C37_LayersInside ==
  /\ \A i \in 1..Len(textElements) : InsideContainer(textElements[i], data.logoSettings)
  /\ \A i \in 1..Len(logoSettings.textElements) :
       InsideContainer(logoSettings.textElements[i], logoSettings)

\* ------------------------------------------------- blocks of the document
\* the text block addText placed last: <<page, cursor at placement, height>>
Placed == doc.block # NoDoc.block

\* C38: every text block addText places starts at or below the top margin 20
\* and ends at or above the bottom limit 280, whatever its height.
C38_BlocksWithinPage ==
  Placed => doc.block[2] >= Margin /\ doc.block[2] + doc.block[3] <= Bottom

====
